---------------------------- MODULE Spec2Model ----------------------------
(***************************************************************************)
(* On-call compensation calculator (src/src/App.tsx).                      *)
(*                                                                         *)
(* A JavaScript Date is modelled as an instant: the whole number of hours  *)
(* since 1970-01-01T00:00Z.  Its local calendar fields are read through    *)
(* the time-zone offset of the browser, an ISO string is the record of its *)
(* UTC calendar fields.  Hours of work are whole numbers; rates are kept   *)
(* in tenths (0.2 is 2) and amounts of money as fractions.                 *)
(***************************************************************************)
EXTENDS Integers, Sequences, FiniteSets, TLC

VARIABLES
    storage,      \* localStorage item 'oncall-calc-state', Null when absent
    state,        \* AppState held by useState, NotMounted before the first render
    calculation,  \* result of the calculation useMemo of the last render
    hYear,        \* holiday resolver: the calendar year examined
    hDone,        \* holiday resolver: TRUE once the year has been resolved
    hDates        \* holiday resolver: the dates of hYear found to be holidays

vars == <<storage, state, calculation, hYear, hDone, hDates>>

-----------------------------------------------------------------------------
(* Bounds of the model *)

\* offset of local time from UTC in hours (Europe/Prague standard time)
TimezoneOffsetHours == 1

\* longest work-log list explored
MaxLogs == 2

\* longest work-log list explored while every card of the page is used
MaxAppLogs == 1

\* longest assignment list and work-log list found in localStorage at start
MaxSavedShifts == 2
MaxSavedLogs == 1

\* calendar years explored by the holiday resolver: the years around year 100,
\* where new Date(year, month, day) stops reading the year as 1900 + year, and
\* the years of the present
FirstEarlyYear == 95
LastEarlyYear == 104
FirstYear == 1900
LastYear == 2100

-----------------------------------------------------------------------------
(* JavaScript Date and date-fns *)

\* day number (days since 1970-01-01) of the civil date y / m (1..12) / d;
\* d may lie outside the month, as in new Date(y, m, d) and setDate
DaysFromCivil(y, m, d) ==
    LET yy  == IF m <= 2 THEN y - 1 ELSE y
        era == yy \div 400
        yoe == yy - era * 400
        mp  == IF m > 2 THEN m - 3 ELSE m + 9
        doy == (153 * mp + 2) \div 5 + d - 1
        doe == yoe * 365 + yoe \div 4 - yoe \div 100 + doy
    IN  era * 146097 + doe - 719468

\* civil date [y, m (1..12), d] of a day number, in steps: the day of the
\* 400-year era, the year of the era, the day of the year counted from
\* 1 March, and the month counted from March
YearOfEra(doe) ==
    (doe - doe \div 1460 + doe \div 36524 - doe \div 146096) \div 365

DayOfYear(doe, yoe) == doe - (365 * yoe + yoe \div 4 - yoe \div 100)

CivilOfMonth(y, doy, mp) ==
    [y |-> IF mp < 10 THEN y ELSE y + 1,
     m |-> IF mp < 10 THEN mp + 3 ELSE mp - 9,
     d |-> doy - (153 * mp + 2) \div 5 + 1]

CivilOfDayOfYear(y, doy) == CivilOfMonth(y, doy, (5 * doy + 2) \div 153)

CivilOfYearOfEra(era, doe, yoe) ==
    CivilOfDayOfYear(yoe + era * 400, DayOfYear(doe, yoe))

CivilOfEra(era, zz) ==
    CivilOfYearOfEra(era, zz - era * 146097, YearOfEra(zz - era * 146097))

CivilFromDays(z) == CivilOfEra((z + 719468) \div 146097, z + 719468)

\* local day number and local hour of day of an instant
LocalDay(date) == (date + TimezoneOffsetHours) \div 24
LocalHour(date) == (date + TimezoneOffsetHours) % 24

\* date-fns getDate / Date.getMonth (0 = January) / Date.getFullYear
getDate(date) == CivilFromDays(LocalDay(date)).d
getMonth(date) == CivilFromDays(LocalDay(date)).m - 1
getFullYear(date) == CivilFromDays(LocalDay(date)).y

\* date-fns getDay: 0 = Sunday ... 6 = Saturday
getDay(date) == (LocalDay(date) + 4) % 7

\* local midnight of the civil date year / month (0-based) / day
LocalMidnight(year, month, day) ==
    DaysFromCivil(year, month + 1, day) * 24 - TimezoneOffsetHours

\* new Date(year, month, day): local midnight, month 0-based; a year from 0 to
\* 99 stands for 1900 + year
NewDate(year, month, day) ==
    LocalMidnight(IF year \in 0..99 THEN 1900 + year ELSE year, month, day)

\* setDate that stops at the ends of the month instead of carrying over
setDate_Clamped(date, n) ==
    LET c == CivilFromDays(LocalDay(date))
        k == IF n < 1 THEN 1 ELSE IF n > 31 THEN 31 ELSE n
    IN  (DaysFromCivil(c.y, c.m, k) * 24 + LocalHour(date)) - TimezoneOffsetHours

\* Date.setDate(n): same month and time of day, day of month n (may overflow)
setDate(date, n) ==
    LET c == CivilFromDays(LocalDay(date))
    IN  (DaysFromCivil(c.y, c.m, n) * 24 + LocalHour(date)) - TimezoneOffsetHours

isSameDay(a, b) == LocalDay(a) = LocalDay(b)

isWeekend(date) == getDay(date) \in {0, 6}

\* Date.toISOString(): the UTC calendar fields of the instant
toISOString(date) ==
    LET c == CivilFromDays(date \div 24)
    IN  [Y |-> c.y, M |-> c.m, D |-> c.d, h |-> date % 24]

\* new Date(isoString)
ParseISO(iso) == DaysFromCivil(iso.Y, iso.M, iso.D) * 24 + iso.h

-----------------------------------------------------------------------------
(* Holiday resolver *)

\* getEasterSunday without the correction m of the late full moons
getEasterSunday_Uncorrected(year) ==
    LET a == year % 19
        b == year \div 100
        c == year % 100
        d == b \div 4
        e == b % 4
        f == (b + 8) \div 25
        g == (b - f + 1) \div 3
        h == (19 * a + b - d - g + 15) % 30
        i == c \div 4
        k == c % 4
        l == (32 + 2 * e + 2 * i - h - k) % 7
        month == (h + l + 114) \div 31 - 1
        day == ((h + l + 114) % 31) + 1
    IN  NewDate(year, month, day)

getEasterSunday(year) ==
    LET a == year % 19
        b == year \div 100
        c == year % 100
        d == b \div 4
        e == b % 4
        f == (b + 8) \div 25
        g == (b - f + 1) \div 3
        h == (19 * a + b - d - g + 15) % 30
        i == c \div 4
        k == c % 4
        l == (32 + 2 * e + 2 * i - h - k) % 7
        m == (a + 11 * h + 22 * l) \div 451
        month == (h + l - 7 * m + 114) \div 31 - 1
        day == ((h + l - 7 * m + 114) % 31) + 1
    IN  NewDate(year, month, day)

fixedHolidays ==
    { [d |-> 1, m |-> 0], [d |-> 1, m |-> 4], [d |-> 8, m |-> 4],
      [d |-> 5, m |-> 6], [d |-> 6, m |-> 6], [d |-> 28, m |-> 8],
      [d |-> 28, m |-> 9], [d |-> 17, m |-> 10], [d |-> 24, m |-> 11],
      [d |-> 25, m |-> 11], [d |-> 26, m |-> 11] }

\* goodFriday without the step back of two days
goodFriday_OnSunday(easterSunday) == setDate(easterSunday, getDate(easterSunday))

goodFriday(easterSunday) == setDate(easterSunday, getDate(easterSunday) - 2)

easterMonday(easterSunday) == setDate(easterSunday, getDate(easterSunday) + 1)

isCzechHoliday(date) ==
    LET d == getDate(date)
        m == getMonth(date)
        y == getFullYear(date)
        easterSunday == getEasterSunday(y)
    IN  IF \E h \in fixedHolidays : h.d = d /\ h.m = m THEN TRUE
        ELSE IF isSameDay(date, goodFriday(easterSunday)) THEN TRUE
        ELSE IF isSameDay(date, easterMonday(easterSunday)) THEN TRUE
        ELSE FALSE

-----------------------------------------------------------------------------
(* Standard-hours calculator *)

startOfMonth(date) == LocalMidnight(getFullYear(date), getMonth(date), 1)

\* last day of the month (date-fns sets 23:59:59.999; kept at hour 23)
endOfMonth(date) == LocalMidnight(getFullYear(date), getMonth(date) + 1, 0) + 23

\* one Date at local midnight for every day from start to end
eachDayOfInterval(start, end) ==
    [i \in 1..(LocalDay(end) - LocalDay(start) + 1) |->
        (LocalDay(start) + i - 1) * 24 - TimezoneOffsetHours]

\* calculateStandardMonthlyHours with the public holidays taken out as well
calculateStandardMonthlyHours_NoHolidays(date) ==
    LET days == eachDayOfInterval(startOfMonth(date), endOfMonth(date))
        workingDays == SelectSeq(days, LAMBDA d : ~isWeekend(d) /\ ~isCzechHoliday(d))
    IN  Len(workingDays) * 8

calculateStandardMonthlyHours(date) ==
    LET days == eachDayOfInterval(startOfMonth(date), endOfMonth(date))
        workingDays == SelectSeq(days, LAMBDA d : ~isWeekend(d))
    IN  Len(workingDays) * 8

-----------------------------------------------------------------------------
(* Exact arithmetic on amounts: a fraction [n, d] in lowest terms, d > 0 *)

RECURSIVE GCD(_, _)
GCD(a, b) == IF b = 0 THEN a ELSE GCD(b, a % b)

Abs(x) == IF x < 0 THEN -x ELSE x

Frac(n, d) ==
    LET g == GCD(Abs(n), Abs(d))
        s == IF d < 0 THEN -1 ELSE 1
    IN  [n |-> (s * n) \div g, d |-> (s * d) \div g]

\* FracMul rounded down to a whole number
FracMul_Rounded(p, q) == [n |-> (p.n * q.n) \div (p.d * q.d), d |-> 1]

FracMul(p, q) == Frac(p.n * q.n, p.d * q.d)
FracAdd(p, q) == Frac(p.n * q.d + q.n * p.d, p.d * q.d)
FracInt(k) == [n |-> k, d |-> 1]

\* Tenths reading the rate as hundredths
Tenths_Percent(r) == Frac(r, 100)

\* a rate kept in tenths, as a fraction
Tenths(r) == Frac(r, 10)


-----------------------------------------------------------------------------
(* Derived values of a render *)

\* number | null and string | null are sequences: <<>> is null, <<v>> is v
Null == <<>>

currentDate(st) == ParseISO(st.selectedDate)

standardMonthlyHours(st) == calculateStandardMonthlyHours(currentDate(st))

\* state.monthlyHoursOverride || standardMonthlyHours: null and 0 are falsy
effectiveMonthlyHours(st) ==
    IF st.monthlyHoursOverride # Null /\ st.monthlyHoursOverride[1] # 0
    THEN st.monthlyHoursOverride[1]
    ELSE standardMonthlyHours(st)

\* hourlyWage without the test of the sign of the hours
hourlyWage_Unguarded(st) == Frac(st.monthlySalary, effectiveMonthlyHours(st))

hourlyWage(st) ==
    LET hours == effectiveMonthlyHours(st)
    IN  IF hours > 0 THEN Frac(st.monthlySalary, hours) ELSE FracInt(0)

\* rates that follow the custom rates with every profile
rates_AlwaysCustom(st) == st.customRates

rates(st) ==
    IF st.profile = "custom" THEN st.customRates
    ELSE IF st.profile = "devops" THEN [onCall |-> 2, otNormal |-> 5, otHoliday |-> 15]
    ELSE [onCall |-> 1, otNormal |-> 5, otHoliday |-> 15]

-----------------------------------------------------------------------------
(* Calculator engine *)

\* ShiftHours with the Start variant blind to the kind of day
ShiftHours_StartFlat(item) ==
    LET date == ParseISO(item.date)
        isHoliday == isCzechHoliday(date)
        isWe == isWeekend(date)
    IN  IF item.type = "start" THEN 7
        ELSE IF item.type = "end" THEN 9
        ELSE IF item.type = "split" THEN 16
        ELSE IF isHoliday \/ isWe THEN 24 ELSE 16

\* ShiftHours that knows weekends but no public holidays
ShiftHours_WeekendOnly(item) ==
    LET date == ParseISO(item.date)
        isWe == isWeekend(date)
    IN  IF item.type = "start" THEN (IF isWe THEN 15 ELSE 7)
        ELSE IF item.type = "end" THEN 9
        ELSE IF item.type = "split" THEN 16
        ELSE IF isWe THEN 24 ELSE 16

\* standby hours one assignment adds to totalStandbyHours
ShiftHours(item) ==
    LET date == ParseISO(item.date)
        isHoliday == isCzechHoliday(date)
        isWe == isWeekend(date)
    IN  IF item.type = "start" THEN (IF isHoliday \/ isWe THEN 15 ELSE 7)
        ELSE IF item.type = "end" THEN 9
        ELSE IF item.type = "split" THEN 16
        ELSE IF isHoliday \/ isWe THEN 24 ELSE 16

\* LogIsHoliday decided by the override alone
LogIsHoliday_OverrideOnly(log) == log.isHolidayOverride

\* LogIsHoliday that takes a Saturday or Sunday for a holiday too
LogIsHoliday_WeekendToo(log) ==
    LET logDate == ParseISO(log.date)
    IN  isCzechHoliday(logDate) \/ isWeekend(logDate) \/ log.isHolidayOverride

\* holiday status of one work-log entry
LogIsHoliday(log) ==
    LET logDate == ParseISO(log.date)
        autoHoliday == isCzechHoliday(logDate)
    IN  autoHoliday \/ log.isHolidayOverride

\* LogNormalHours that counts the hours of a holiday entry as well
LogNormalHours_Every(log) == log.hours

\* hours one work-log entry adds to totalWorkHoliday and to totalWorkNormal
LogHolidayHours(log) == IF LogIsHoliday(log) THEN log.hours ELSE 0
LogNormalHours(log) == IF LogIsHoliday(log) THEN 0 ELSE log.hours

\* LogDuration that counts an entry on the days of the working week only
LogDuration_WorkingWeek(log) ==
    IF isWeekend(ParseISO(log.date)) THEN 0 ELSE log.hours

\* hours one work-log entry adds to totalWorkDuration
LogDuration(log) == log.hours

\* totalStandbyHours with a ceiling of one full day
RECURSIVE totalStandbyHours_Capped(_)
totalStandbyHours_Capped(selectedOnCallDates) ==
    IF selectedOnCallDates = <<>> THEN 0
    ELSE LET sum == ShiftHours(Head(selectedOnCallDates))
                       + totalStandbyHours_Capped(Tail(selectedOnCallDates))
         IN  IF sum > 24 THEN 24 ELSE sum

\* the accumulations of the two forEach loops
RECURSIVE totalStandbyHours(_)
totalStandbyHours(selectedOnCallDates) ==
    IF selectedOnCallDates = <<>> THEN 0
    ELSE ShiftHours(Head(selectedOnCallDates))
            + totalStandbyHours(Tail(selectedOnCallDates))

RECURSIVE totalWorkHoliday(_)
totalWorkHoliday(workLogs) ==
    IF workLogs = <<>> THEN 0
    ELSE LogHolidayHours(Head(workLogs)) + totalWorkHoliday(Tail(workLogs))

RECURSIVE totalWorkNormal(_)
totalWorkNormal(workLogs) ==
    IF workLogs = <<>> THEN 0
    ELSE LogNormalHours(Head(workLogs)) + totalWorkNormal(Tail(workLogs))

RECURSIVE totalWorkDuration(_)
totalWorkDuration(workLogs) ==
    IF workLogs = <<>> THEN 0
    ELSE LogDuration(Head(workLogs)) + totalWorkDuration(Tail(workLogs))

Max(a, b) == IF a >= b THEN a ELSE b

\* paidStandbyHours as the distance between standby and worked hours
paidStandbyHours_Distance(standby, worked) == Abs(standby - worked)

\* paidStandbyHours without the floor of zero
paidStandbyHours_Unclamped(standby, worked) == standby - worked

paidStandbyHours(standby, worked) == Max(0, standby - worked)

\* the amounts of money and the result object
Compensation(paid, normal, holiday, wage, r) ==
    [paidStandbyHours |-> paid,
     totalWorkNormal |-> normal,
     totalWorkHoliday |-> holiday,
     onCallFee |-> FracMul(FracMul(FracInt(paid), wage), Tenths(r.onCall)),
     overtimeNormalPay |->
         FracMul(FracMul(FracInt(normal), wage), Tenths(10 + r.otNormal)),
     overtimeHolidayPay |->
         FracMul(FracMul(FracInt(holiday), wage), Tenths(10 + r.otHoliday)),
     totalExtra |->
         FracAdd(FracAdd(FracMul(FracMul(FracInt(paid), wage), Tenths(r.onCall)),
                         FracMul(FracMul(FracInt(normal), wage),
                                 Tenths(10 + r.otNormal))),
                 FracMul(FracMul(FracInt(holiday), wage), Tenths(10 + r.otHoliday))),
     hourlyWage |-> wage]

\* Calculate whose accumulators start from the totals of the result before
Calculate_Accumulating(st) ==
    Compensation(paidStandbyHours(totalStandbyHours(st.selectedOnCallDates),
                                  totalWorkDuration(st.workLogs))
                    + (IF calculation = [rendered |-> FALSE] THEN 0
                       ELSE calculation.paidStandbyHours),
                 totalWorkNormal(st.workLogs),
                 totalWorkHoliday(st.workLogs),
                 hourlyWage(st),
                 rates(st))

Calculate(st) ==
    Compensation(paidStandbyHours(totalStandbyHours(st.selectedOnCallDates),
                                  totalWorkDuration(st.workLogs)),
                 totalWorkNormal(st.workLogs),
                 totalWorkHoliday(st.workLogs),
                 hourlyWage(st),
                 rates(st))

-----------------------------------------------------------------------------
(* Inputs of the user interface *)

\* new Date() while the page is used: Tuesday 2 April 2024, 10:00 UTC
Now == ParseISO([Y |-> 2024, M |-> 4, D |-> 2, h |-> 10])

\* days of the month whose calendar button is clicked
ClickDays == {1, 2, 6}

\* values typed into <input type="month">, as [Y, M]
MonthInputs == {[Y |-> 2024, M |-> 2], [Y |-> 2024, M |-> 4], [Y |-> 2024, M |-> 5]}

\* values typed into the salary, monthly-hours and custom-rate inputs
SalaryInputs == {0, 80000}
HoursOverrideInputs == {-8, 0, 160}
RateInputs == {3}

Profiles == {"devops", "other", "custom"}

\* values typed into a work-log row: <input type="date"> as [Y, M, D], hours
LogDateInputs == {[Y |-> 2024, M |-> 4, D |-> 1]}
LogHoursInputs == {0, 10}

\* results of Math.random().toString(36).substr(2, 9): two random strings,
\* each of which may come up again
Ids == {1, 2}

\* new Date("YYYY-MM") and new Date("YYYY-MM-DD"): midnight UTC
ParseMonthInput(v) == ParseISO([Y |-> v.Y, M |-> v.M, D |-> 1, h |-> 0])
ParseDateInput(v) == ParseISO([Y |-> v.Y, M |-> v.M, D |-> v.D, h |-> 0])

-----------------------------------------------------------------------------
(* State *)

\* values of state and calculation before the component is mounted
NotMounted == [mounted |-> FALSE]
NotRendered == [rendered |-> FALSE]

\* the state used when localStorage holds nothing
DefaultState ==
    [monthlySalary |-> 80000,
     selectedDate |-> toISOString(Now),
     monthlyHoursOverride |-> Null,
     profile |-> "devops",
     customRates |-> [onCall |-> 2, otNormal |-> 5, otHoliday |-> 15],
     selectedOnCallDates |-> <<>>,
     workLogs |-> <<>>]

\* typeof x === 'string' for an element of a persisted selectedOnCallDates:
\* a bare ISO string has no date and type fields
IsString(x) == "date" \notin DOMAIN x

\* LoadState whose migration turns the order of the list round
LoadState_Reversed(saved) ==
    IF saved # <<>>
    THEN LET parsed == saved[1]
         IN  IF /\ Len(parsed.selectedOnCallDates) > 0
                /\ "date" \notin DOMAIN parsed.selectedOnCallDates[1]
             THEN [parsed EXCEPT !.selectedOnCallDates =
                     [i \in 1..Len(@) |->
                         [date |-> @[Len(@) + 1 - i], type |-> "full"]]]
             ELSE parsed
    ELSE [monthlySalary |-> 80000,
          selectedDate |-> toISOString(Now),
          monthlyHoursOverride |-> <<>>,
          profile |-> "devops",
          customRates |-> [onCall |-> 2, otNormal |-> 5, otHoliday |-> 15],
          selectedOnCallDates |-> <<>>,
          workLogs |-> <<>>]

\* the useState initializer: the persisted state, with a legacy list of bare
\* date strings turned into assignments, or the default state
LoadState(saved) ==
    IF saved # Null
    THEN LET parsed == saved[1]
         IN  IF /\ Len(parsed.selectedOnCallDates) > 0
                /\ IsString(parsed.selectedOnCallDates[1])
             THEN [parsed EXCEPT !.selectedOnCallDates =
                     [i \in 1..Len(@) |-> [date |-> @[i], type |-> "full"]]]
             ELSE parsed
    ELSE DefaultState

\* the useMemo of calculation with hourlyWage missing from its dependencies
Render_NoWageDependency(new) ==
    calculation' =
        IF \/ state = [mounted |-> FALSE]
           \/ new.selectedOnCallDates # state.selectedOnCallDates
           \/ new.workLogs # state.workLogs
           \/ rates(new) # rates(state)
        THEN Calculate(new)
        ELSE calculation

\* the useMemo of calculation: recomputed when one of its dependencies
\* [selectedOnCallDates, workLogs, hourlyWage, rates] differs from the
\* previous render, otherwise the memoised value is kept
Render(new) ==
    calculation' =
        IF \/ state = NotMounted
           \/ new.selectedOnCallDates # state.selectedOnCallDates
           \/ new.workLogs # state.workLogs
           \/ hourlyWage(new) # hourlyWage(state)
           \/ rates(new) # rates(state)
        THEN Calculate(new)
        ELSE calculation

\* a new state: the render it causes and the effect that persists it
SetState(new) ==
    \E next \in {new} :
        /\ state' = next
        /\ Render(next)
        /\ storage' = <<next>>
        /\ UNCHANGED <<hYear, hDone, hDates>>

\* first render of the component
Mount ==
    /\ state = NotMounted
    /\ SetState(LoadState(storage))

-----------------------------------------------------------------------------
(* Handlers *)

\* existingIndex that tests only the first element of the list
existingIndex_FirstOnly(list, day) ==
    IF Len(list) >= 1 /\ isSameDay(ParseISO(list[1].date), day) THEN 1 ELSE 0

\* findIndex(d => isSameDay(new Date(d.date), day)): the first index (from 1)
\* of an assignment on the day, or 0 (JavaScript: from 0, or -1)
existingIndex(list, day) ==
    IF \E i \in 1..Len(list) : isSameDay(ParseISO(list[i].date), day)
    THEN CHOOSE i \in 1..Len(list) :
            /\ isSameDay(ParseISO(list[i].date), day)
            /\ \A j \in 1..(i - 1) : ~isSameDay(ParseISO(list[j].date), day)
    ELSE 0

\* splice without its count: the element at index and all after it go
splice_ToEnd(list, index) == SubSeq(list, 1, index - 1)

\* Array.splice(index, 1)
splice(list, index) ==
    [i \in 1..(Len(list) - 1) |-> IF i < index THEN list[i] ELSE list[i + 1]]

\* the days shown as buttons by renderCalendar
CalendarDays(st) ==
    LET days == eachDayOfInterval(startOfMonth(currentDate(st)),
                                  endOfMonth(currentDate(st)))
    IN  {days[i] : i \in 1..Len(days)}

\* the variant that follows a variant in the cycle of toggleDate; None: removed
None == "none"

\* NextType with the End step left out of the chain of tests
NextType_SkipEnd(type) ==
    IF type = "full" THEN "start"
    ELSE IF type = "start" THEN "split"
    ELSE None

NextType(type) ==
    IF type = "full" THEN "start"
    ELSE IF type = "start" THEN "end"
    ELSE IF type = "end" THEN "split"
    ELSE None

\* the list toggleDate builds from the list of the render it closes over
newSelection(list, day) ==
    LET index == existingIndex(list, day)
    IN  IF index >= 1
        THEN IF NextType(list[index].type) # None
             THEN [list EXCEPT ![index].type = NextType(@)]
             ELSE splice(list, index)
        ELSE Append(list, [date |-> toISOString(day), type |-> "full"])

toggleDate(day) ==
    /\ state # NotMounted
    /\ SetState([state EXCEPT
          !.selectedOnCallDates = newSelection(state.selectedOnCallDates, day)])

\* the updater toggleDate hands to setState: prev with the list it has built
SelectionUpdater(prev, selection) == [prev EXCEPT !.selectedOnCallDates = selection]

\* two toggleDate calls issued from one render, then the render: each call
\* builds its list from the selectedOnCallDates of the rendered state, and
\* React applies the two queued updaters in the order of the calls
toggleDateBatch(first, second) ==
    /\ state # NotMounted
    /\ SetState(SelectionUpdater(
                    SelectionUpdater(state,
                                     newSelection(state.selectedOnCallDates, first)),
                    newSelection(state.selectedOnCallDates, second)))

\* addWorkLog whose new entry starts with one hour
addWorkLog_OneHour(id) ==
    /\ state # NotMounted
    /\ Len(state.workLogs) < MaxLogs
    /\ SetState([state EXCEPT !.workLogs =
          Append(@, [id |-> id, date |-> toISOString(Now), hours |-> 1,
                     isHolidayOverride |-> FALSE])])

addWorkLog(id) ==
    /\ state # NotMounted
    /\ Len(state.workLogs) < MaxLogs
    /\ SetState([state EXCEPT !.workLogs =
          Append(@, [id |-> id, date |-> toISOString(Now), hours |-> 0,
                     isHolidayOverride |-> FALSE])])

\* updateWorkLog that sets the field in every entry
updateWorkLog_All(id, field, value) ==
    /\ state # NotMounted
    /\ SetState([state EXCEPT !.workLogs =
          [i \in 1..Len(@) |-> [@[i] EXCEPT ![field] = value]]])

updateWorkLog(id, field, value) ==
    /\ state # NotMounted
    /\ SetState([state EXCEPT !.workLogs =
          [i \in 1..Len(@) |->
              IF @[i].id = id THEN [@[i] EXCEPT ![field] = value] ELSE @[i]]])

removeWorkLog(id) ==
    /\ state # NotMounted
    /\ SetState([state EXCEPT !.workLogs = SelectSeq(@, LAMBDA l : l.id # id)])

setMonthlySalary(value) ==
    /\ state # NotMounted
    /\ SetState([state EXCEPT !.monthlySalary = value])

setSelectedDate(value) ==
    /\ state # NotMounted
    /\ SetState([state EXCEPT !.selectedDate = toISOString(ParseMonthInput(value))])

setMonthlyHoursOverride(value) ==
    /\ state # NotMounted
    /\ SetState([state EXCEPT !.monthlyHoursOverride = <<value>>])

\* the reset button is rendered only while an override differs from the
\* standard hours
resetMonthlyHoursOverride ==
    /\ state # NotMounted
    /\ state.monthlyHoursOverride # Null
    /\ state.monthlyHoursOverride[1] # standardMonthlyHours(state)
    /\ SetState([state EXCEPT !.monthlyHoursOverride = Null])

setProfile(value) ==
    /\ state # NotMounted
    /\ SetState([state EXCEPT !.profile = value])

\* the three rate inputs are rendered only for the custom profile
setCustomRate(field, value) ==
    /\ state # NotMounted
    /\ state.profile = "custom"
    /\ SetState([state EXCEPT !.customRates[field] = value])

-----------------------------------------------------------------------------
(* The application, started in a browser with nothing in localStorage *)

HolidayIdle ==
    /\ hYear = FirstYear
    /\ hDone = FALSE
    /\ hDates = {}

Init ==
    /\ storage = Null
    /\ state = NotMounted
    /\ calculation = NotRendered
    /\ HolidayIdle

\* a click on one of the calendar buttons
ClickDay ==
    /\ state # NotMounted
    /\ \E day \in CalendarDays(state) :
          getDate(day) \in ClickDays /\ toggleDate(day)

LogIds ==
    IF state = NotMounted THEN {}
    ELSE {state.workLogs[i].id : i \in 1..Len(state.workLogs)}

\* the controls of the work-log card
EditLogs ==
    \/ \E id \in Ids : addWorkLog(id)
    \/ \E id \in LogIds, v \in LogDateInputs :
          updateWorkLog(id, "date", toISOString(ParseDateInput(v)))
    \/ \E id \in LogIds, v \in LogHoursInputs : updateWorkLog(id, "hours", v)
    \/ \E id \in LogIds, v \in BOOLEAN :
          updateWorkLog(id, "isHolidayOverride", v)
    \/ \E id \in LogIds : removeWorkLog(id)

\* the controls of the salary and month card
EditSettings ==
    \/ \E v \in SalaryInputs : setMonthlySalary(v)
    \/ \E v \in MonthInputs : setSelectedDate(v)
    \/ \E v \in HoursOverrideInputs : setMonthlyHoursOverride(v)
    \/ resetMonthlyHoursOverride
    \/ \E v \in Profiles : setProfile(v)
    \/ \E f \in {"onCall", "otNormal", "otHoliday"}, v \in RateInputs :
          setCustomRate(f, v)

Next ==
    \/ Mount
    \/ ClickDay
    \/ EditLogs
    \/ EditSettings

Spec == Init /\ [][Next]_vars

\* the on-call schedule card used alone
NextSchedule ==
    \/ Mount
    \/ ClickDay

SpecSchedule == Init /\ [][NextSchedule]_vars

-----------------------------------------------------------------------------
(* The calculation of the first render, for the states a previous session *)
(* may have left in localStorage                                           *)

ShiftTypes == {"full", "start", "end", "split"}

\* Monday 1 April 2024 (Easter Monday), Tuesday 2 April, Saturday 6 April,
\* Wednesday 1 May (Labour Day): the calendar buttons of these days
SavedDays ==
    {LocalMidnight(2024, 3, 1), LocalMidnight(2024, 3, 2),
     LocalMidnight(2024, 3, 6), LocalMidnight(2024, 4, 1)}

\* dates of saved work-log entries: two picked in the date input, one added
SavedLogDates ==
    {toISOString(ParseDateInput([Y |-> 2024, M |-> 4, D |-> 1])),
     toISOString(ParseDateInput([Y |-> 2024, M |-> 4, D |-> 6])),
     toISOString(Now)}

SavedLogHours == {10, 50}

\* assignment lists toggleDate can have built: no two on the same day, here
\* with the days in the order of the calendar
SavedShiftLists ==
    UNION { { [i \in 1..n |-> [date |-> toISOString(days[i]), type |-> types[i]]] :
                days \in {f \in [1..n -> SavedDays] :
                             \A i, j \in 1..n : i < j => f[i] < f[j]},
                types \in [1..n -> ShiftTypes] } :
            n \in 0..MaxSavedShifts }

SavedLogLists ==
    UNION { { [i \in 1..n |-> [id |-> i, date |-> dates[i], hours |-> hours[i],
                               isHolidayOverride |-> overrides[i]]] :
                dates \in [1..n -> SavedLogDates],
                hours \in [1..n -> SavedLogHours],
                overrides \in [1..n -> BOOLEAN] } :
            n \in 0..MaxSavedLogs }

InitCalc ==
    /\ \E shifts \in SavedShiftLists, logs \in SavedLogLists :
          storage = <<[DefaultState EXCEPT !.selectedOnCallDates = shifts,
                                           !.workLogs = logs]>>
    /\ state = NotMounted
    /\ calculation = NotRendered
    /\ HolidayIdle

NextCalc == Mount

SpecCalc == InitCalc /\ [][NextCalc]_vars

-----------------------------------------------------------------------------
(* The salary and month card used on the schedule and work log a previous *)
(* session has left in localStorage                                        *)

\* nothing; one Full on Tuesday 2 April 2024; a Full on Saturday 6 April and a
\* Start on Labour Day
ConfigShiftLists ==
    {<<>>,
     <<[date |-> toISOString(LocalMidnight(2024, 3, 2)), type |-> "full"]>>,
     <<[date |-> toISOString(LocalMidnight(2024, 3, 6)), type |-> "full"],
       [date |-> toISOString(LocalMidnight(2024, 4, 1)), type |-> "start"]>>}

\* nothing; 10 hours on Tuesday 2 April; the same and 10 hours on Easter Monday
ConfigLogLists ==
    {<<>>,
     <<[id |-> 1, date |-> toISOString(Now), hours |-> 10,
        isHolidayOverride |-> FALSE]>>,
     <<[id |-> 1, date |-> toISOString(Now), hours |-> 10,
        isHolidayOverride |-> FALSE],
       [id |-> 2, date |-> toISOString(ParseDateInput([Y |-> 2024, M |-> 4, D |-> 1])),
        hours |-> 10, isHolidayOverride |-> FALSE]>>}

InitConfig ==
    /\ \E shifts \in ConfigShiftLists, logs \in ConfigLogLists :
          storage = <<[DefaultState EXCEPT !.selectedOnCallDates = shifts,
                                           !.workLogs = logs]>>
    /\ state = NotMounted
    /\ calculation = NotRendered
    /\ HolidayIdle

NextConfig ==
    \/ Mount
    \/ EditSettings

SpecConfig == InitConfig /\ [][NextConfig]_vars

-----------------------------------------------------------------------------
(* The work-log card used beside a schedule left in localStorage           *)

\* a Full on Saturday 6 April 2024 and a Start on Labour Day
LogsShiftList ==
    <<[date |-> toISOString(LocalMidnight(2024, 3, 6)), type |-> "full"],
      [date |-> toISOString(LocalMidnight(2024, 4, 1)), type |-> "start"]>>

InitLogs ==
    /\ storage = <<[DefaultState EXCEPT !.selectedOnCallDates = LogsShiftList]>>
    /\ state = NotMounted
    /\ calculation = NotRendered
    /\ HolidayIdle

NextLogs ==
    \/ Mount
    \/ EditLogs

SpecLogs == InitLogs /\ [][NextLogs]_vars

-----------------------------------------------------------------------------
(* Every card of the page used in turn, started with nothing stored        *)

\* the calendar button clicked: Tuesday 2 April 2024, while April is shown
AppClickDates == {[y |-> 2024, m |-> 4, d |-> 2]}

\* values typed into the inputs of the salary and month card
AppMonthInputs == {[Y |-> 2024, M |-> 5]}
AppSalaryInputs == {0, 80000}
AppHoursOverrideInputs == {160}

ClickDayApp ==
    /\ state # NotMounted
    /\ \E day \in CalendarDays(state) :
          CivilFromDays(LocalDay(day)) \in AppClickDates /\ toggleDate(day)

EditLogsApp ==
    \/ state # NotMounted /\ Len(state.workLogs) < MaxAppLogs /\ addWorkLog(1)
    \/ \E id \in LogIds, v \in LogDateInputs :
          updateWorkLog(id, "date", toISOString(ParseDateInput(v)))
    \/ \E id \in LogIds, v \in LogHoursInputs : updateWorkLog(id, "hours", v)
    \/ \E id \in LogIds, v \in BOOLEAN :
          updateWorkLog(id, "isHolidayOverride", v)
    \/ \E id \in LogIds : removeWorkLog(id)

EditSettingsApp ==
    \/ \E v \in AppSalaryInputs : setMonthlySalary(v)
    \/ \E v \in AppMonthInputs : setSelectedDate(v)
    \/ \E v \in AppHoursOverrideInputs : setMonthlyHoursOverride(v)
    \/ resetMonthlyHoursOverride
    \/ \E v \in Profiles : setProfile(v)
    \/ \E v \in RateInputs : setCustomRate("onCall", v)

NextApp ==
    \/ Mount
    \/ ClickDayApp
    \/ EditLogsApp
    \/ EditSettingsApp

SpecApp == Init /\ [][NextApp]_vars

-----------------------------------------------------------------------------
(* The calendar used on a state a previous session has left in             *)
(* localStorage                                                            *)

\* the settings of a new page, and settings changed in every field
ToggleSettings ==
    {DefaultState,
     [DefaultState EXCEPT !.monthlySalary = 0,
                          !.selectedDate = toISOString(ParseMonthInput([Y |-> 2024, M |-> 4])),
                          !.monthlyHoursOverride = <<160>>,
                          !.profile = "custom",
                          !.customRates = [onCall |-> 3, otNormal |-> 5, otHoliday |-> 15]]}

InitToggle ==
    /\ \E settings \in ToggleSettings, shifts \in ConfigShiftLists,
          logs \in ConfigLogLists :
          storage = <<[settings EXCEPT !.selectedOnCallDates = shifts,
                                       !.workLogs = logs]>>
    /\ state = NotMounted
    /\ calculation = NotRendered
    /\ HolidayIdle

NextToggle ==
    \/ Mount
    \/ ClickDay

SpecToggle == InitToggle /\ [][NextToggle]_vars

-----------------------------------------------------------------------------
(* The calendar with two toggleDate calls inside one render                *)

\* two days toggled by one event, before React renders again
ClickTwoDays ==
    /\ state # NotMounted
    /\ \E first, second \in CalendarDays(state) :
          /\ getDate(first) \in ClickDays
          /\ getDate(second) \in ClickDays
          /\ first # second
          /\ toggleDateBatch(first, second)

NextBatch ==
    \/ Mount
    \/ ClickDay
    \/ ClickTwoDays

SpecBatch == Init /\ [][NextBatch]_vars

-----------------------------------------------------------------------------
(* Assignments added and hours logged against them                         *)

\* values typed into the hours input of a work-log row; min="0" of the input
\* does not keep a negative number from being typed
StandbyHoursInputs == {-5, 0, 10, 50}

EditHours ==
    \E id \in LogIds, v \in StandbyHoursInputs : updateWorkLog(id, "hours", v)

NextStandby ==
    \/ Mount
    \/ ClickDayApp
    \/ EditHours

SpecStandby == InitConfig /\ [][NextStandby]_vars

-----------------------------------------------------------------------------
(* The calculation evaluated again on the inputs of the render before      *)

\* the callback of the calculation useMemo runs once more on the state it has
\* run on: a dependency has been replaced by an equal copy, as updateWorkLog
\* and removeWorkLog do with the work log whatever they are called with
Recalculate ==
    /\ state # NotMounted
    /\ calculation' = Calculate(state)
    /\ UNCHANGED <<storage, state, hYear, hDone, hDates>>

NextEval ==
    \/ Mount
    \/ Recalculate

SpecEval == InitCalc /\ [][NextEval]_vars

-----------------------------------------------------------------------------
(* The first render on what any version of the page has left in            *)
(* localStorage under the key 'oncall-calc-state'                          *)

\* the variant tags found in stored assignments: those of SelectedDay and
\* 'handoff', written by the earlier version of the page
StoredTypes == ShiftTypes \cup {"handoff"}

\* the day lists of stored assignments, in the order of the calendar
StoredDayLists ==
    UNION { {f \in [1..n -> SavedDays] : \A i, j \in 1..n : i < j => f[i] < f[j]} :
            n \in 0..MaxSavedShifts }

\* stored lists of typed assignments and, from the oldest version, stored
\* lists of bare date strings
StoredShiftLists ==
    UNION { { [i \in 1..Len(days) |->
                  [date |-> toISOString(days[i]), type |-> types[i]]] :
                types \in [1..Len(days) -> StoredTypes] } :
            days \in StoredDayLists }
      \cup { [i \in 1..Len(days) |-> toISOString(days[i])] : days \in StoredDayLists }

InitStored ==
    /\ \E shifts \in StoredShiftLists :
          storage = <<[DefaultState EXCEPT !.selectedOnCallDates = shifts]>>
    /\ state = NotMounted
    /\ calculation = NotRendered
    /\ HolidayIdle

NextStored == Mount

SpecStored == InitStored /\ [][NextStored]_vars

-----------------------------------------------------------------------------
(* The older page, with the variants Full and Handoff, on the states it     *)
(* has left in localStorage                                                *)

VariantTypes == {"full", "handoff"}

\* the standby hours of the older page with seven hours for a Handoff
VariantShiftHours_HandoffSeven(item) ==
    IF item.type = "handoff" THEN 7
    ELSE IF isCzechHoliday(ParseISO(item.date)) \/ isWeekend(ParseISO(item.date))
         THEN 24 ELSE 16

\* standby hours one assignment adds in the calculation of the older page
VariantShiftHours(item) ==
    IF item.type = "handoff" THEN 9
    ELSE IF isCzechHoliday(ParseISO(item.date)) \/ isWeekend(ParseISO(item.date))
         THEN 24 ELSE 16

RECURSIVE VariantTotalStandbyHours(_)
VariantTotalStandbyHours(selectedOnCallDates) ==
    IF selectedOnCallDates = <<>> THEN 0
    ELSE VariantShiftHours(Head(selectedOnCallDates))
            + VariantTotalStandbyHours(Tail(selectedOnCallDates))

\* the calculation of the older page: its own loop over the assignments; the
\* loop over the work log, the payable hours, the amounts, hourlyWage and
\* rates are the same text as in the newer page
VariantCalculate(st) ==
    Compensation(paidStandbyHours(VariantTotalStandbyHours(st.selectedOnCallDates),
                                  totalWorkDuration(st.workLogs)),
                 totalWorkNormal(st.workLogs),
                 totalWorkHoliday(st.workLogs),
                 hourlyWage(st),
                 rates(st))

\* assignment lists the toggleDate of the older page can have built
VariantShiftLists ==
    UNION { { [i \in 1..Len(days) |->
                  [date |-> toISOString(days[i]), type |-> types[i]]] :
                types \in [1..Len(days) -> VariantTypes] } :
            days \in StoredDayLists }

InitVariant ==
    /\ \E settings \in ToggleSettings, shifts \in VariantShiftLists,
          logs \in SavedLogLists :
          storage = <<[settings EXCEPT !.selectedOnCallDates = shifts,
                                       !.workLogs = logs]>>
    /\ state = NotMounted
    /\ calculation = NotRendered
    /\ HolidayIdle

\* first render of the older page: load, calculation, persist
VariantMount ==
    /\ state = NotMounted
    /\ \E next \in {LoadState(storage)} :
          /\ state' = next
          /\ calculation' = VariantCalculate(next)
          /\ storage' = <<next>>
    /\ UNCHANGED <<hYear, hDone, hDates>>

NextVariant == VariantMount

SpecVariant == InitVariant /\ [][NextVariant]_vars

-----------------------------------------------------------------------------
(* The holiday resolver applied to every day of a year *)

\* a Date at local midnight for every day of the year
DatesOfYear(year) ==
    {LocalMidnight(year, 0, k) :
        k \in 1..(LocalDay(LocalMidnight(year + 1, 0, 1))
                    - LocalDay(LocalMidnight(year, 0, 1)))}

Years == (FirstEarlyYear..LastEarlyYear) \cup (FirstYear..LastYear)

ResolveYear ==
    /\ ~hDone
    /\ hDone' = TRUE
    /\ hDates' = {date \in DatesOfYear(hYear) : isCzechHoliday(date)}
    /\ UNCHANGED <<storage, state, calculation, hYear>>

InitHoliday ==
    /\ storage = Null
    /\ state = NotMounted
    /\ calculation = NotRendered
    /\ hYear \in Years
    /\ hDone = FALSE
    /\ hDates = {}

NextHoliday == ResolveYear

SpecHoliday == InitHoliday /\ [][NextHoliday]_vars

-----------------------------------------------------------------------------
(* Properties of toggleDate *)

Mounted == state # NotMounted

\* the variants of the assignments of a state that lie on the local day of day
TypesOn(st, day) ==
    {st.selectedOnCallDates[i].type :
        i \in {j \in 1..Len(st.selectedOnCallDates) :
                 LocalDay(ParseISO(st.selectedOnCallDates[j].date)) = LocalDay(day)}}

\* the cycle absent -> Full -> Start -> End -> Split -> absent
CycleAfter(types) ==
    IF types = {} THEN {"full"}
    ELSE IF types = {"full"} THEN {"start"}
    ELSE IF types = {"start"} THEN {"end"}
    ELSE IF types = {"end"} THEN {"split"}
    ELSE {}

\* C1: every toggleDate on a day moves the assignment of that day one step
\* along absent -> Full -> Start -> End -> Split -> absent
C1_ToggleCycle ==
    [][\A day \in (IF Mounted THEN CalendarDays(state) ELSE {}) :
          toggleDate(day) =>
              TypesOn(state', day) = CycleAfter(TypesOn(state, day))]_vars

\* a day has been toggled four times and carries a Split assignment
C1_Witness ==
    /\ Mounted
    /\ \E i \in 1..Len(state.selectedOnCallDates) :
          state.selectedOnCallDates[i].type = "split"

\* C2: after any sequence of toggleDate calls from the empty list, no two
\* assignments of the list lie on the same calendar day
C2_OnePerDay ==
    Mounted =>
        \A i, j \in 1..Len(state.selectedOnCallDates) :
            i # j => LocalDay(ParseISO(state.selectedOnCallDates[i].date))
                        # LocalDay(ParseISO(state.selectedOnCallDates[j].date))

\* three days have been toggled and hold an assignment each
C2_Witness ==
    /\ Mounted
    /\ Len(state.selectedOnCallDates) = 3

-----------------------------------------------------------------------------
(* Properties of the calculator engine *)

\* the local civil date [y, m (1..12), d] of an ISO string of the state
CivilOfISO(iso) == CivilFromDays(LocalDay(ParseISO(iso)))

\* the calendar of spring 2024 as the wall calendar has it: Easter Monday,
\* a Saturday and Labour Day are not plain working days; Easter Monday and
\* Labour Day are public holidays
NonWorkingDays2024 ==
    {[y |-> 2024, m |-> 4, d |-> 1], [y |-> 2024, m |-> 4, d |-> 6],
     [y |-> 2024, m |-> 5, d |-> 1]}

PublicHolidays2024 ==
    {[y |-> 2024, m |-> 4, d |-> 1], [y |-> 2024, m |-> 5, d |-> 1]}

\* the table of standby hours by variant and kind of day
StandbyTable(type, nonWorking) ==
    CASE type = "full" -> IF nonWorking THEN 24 ELSE 16
      [] type = "start" -> IF nonWorking THEN 15 ELSE 7
      [] type = "end" -> 9
      [] type = "split" -> 16

TableHours(item) ==
    StandbyTable(item.type, CivilOfISO(item.date) \in NonWorkingDays2024)

RECURSIVE TableSum(_)
TableSum(list) ==
    IF list = <<>> THEN 0 ELSE TableHours(Head(list)) + TableSum(Tail(list))

\* the hours of the entries that belong to the holiday bucket (TRUE) or to the
\* normal bucket (FALSE)
RECURSIVE BucketSum(_, _)
BucketSum(logs, holiday) ==
    IF logs = <<>> THEN 0
    ELSE (IF (CivilOfISO(Head(logs).date) \in PublicHolidays2024
                \/ Head(logs).isHolidayOverride) = holiday
          THEN Head(logs).hours ELSE 0)
             + BucketSum(Tail(logs), holiday)

\* the work log with the date of entry i replaced
Redated(logs, i, date) == [logs EXCEPT ![i].date = date]

\* the days of the assignments of a state
AssignedDays(st) ==
    {LocalDay(ParseISO(st.selectedOnCallDates[i].date)) :
        i \in 1..Len(st.selectedOnCallDates)}

\* C3: the payable standby hours are max(0, standby hours - worked hours),
\* worked hours being the hours of all entries of both buckets; they are never
\* negative; standby 40 and worked 10 give 30, standby 40 and worked 50 give 0
C3_PayableStandby ==
    Mounted =>
        LET standby == totalStandbyHours(state.selectedOnCallDates)
            worked == calculation.totalWorkNormal + calculation.totalWorkHoliday
        IN  /\ calculation.paidStandbyHours
                  = (IF standby - worked > 0 THEN standby - worked ELSE 0)
            /\ calculation.paidStandbyHours >= 0
            /\ standby = 40 /\ worked = 10 => calculation.paidStandbyHours = 30
            /\ standby = 40 /\ worked = 50 => calculation.paidStandbyHours = 0

\* 40 standby hours against 50 worked hours: nothing is payable
C3_Witness ==
    /\ Mounted
    /\ totalStandbyHours(state.selectedOnCallDates) = 40
    /\ calculation.totalWorkNormal + calculation.totalWorkHoliday = 50
    /\ calculation.paidStandbyHours = 0

\* C4: the payable standby hours do not depend on the day an entry is dated
\* on: moving any entry to any other date, assigned or not, leaves them as
\* they are
C4_GlobalDeduction ==
    Mounted =>
        \A i \in 1..Len(state.workLogs), date \in SavedLogDates :
            paidStandbyHours(totalStandbyHours(state.selectedOnCallDates),
                             totalWorkDuration(Redated(state.workLogs, i, date)))
                = calculation.paidStandbyHours

\* an entry of 10 hours on a day without assignment has taken 10 hours off the
\* standby hours of another day
C4_Witness ==
    /\ Mounted
    /\ state.selectedOnCallDates # <<>>
    /\ \E i \in 1..Len(state.workLogs) :
          /\ state.workLogs[i].hours = 10
          /\ LocalDay(ParseISO(state.workLogs[i].date)) \notin AssignedDays(state)
    /\ calculation.paidStandbyHours > 0
    /\ calculation.paidStandbyHours
          = totalStandbyHours(state.selectedOnCallDates) - 10 * Len(state.workLogs)

\* C5: every assignment adds the hours of the table: Full 16 on a plain
\* weekday and 24 on a weekend or holiday, Start 7 and 15, End 9, Split 16;
\* with one assignment and no entry these are the payable standby hours
C5_HoursTable ==
    Mounted =>
        /\ \A i \in 1..Len(state.selectedOnCallDates) :
              ShiftHours(state.selectedOnCallDates[i])
                  = TableHours(state.selectedOnCallDates[i])
        /\ Len(state.selectedOnCallDates) = 1 /\ state.workLogs = <<>> =>
              calculation.paidStandbyHours = TableHours(state.selectedOnCallDates[1])

\* a single Start assignment on Saturday 6 April 2024 gives 15 hours
C5_Witness ==
    /\ Mounted
    /\ Len(state.selectedOnCallDates) = 1
    /\ state.selectedOnCallDates[1].type = "start"
    /\ CivilOfISO(state.selectedOnCallDates[1].date) = [y |-> 2024, m |-> 4, d |-> 6]
    /\ state.workLogs = <<>>
    /\ calculation.paidStandbyHours = 15

\* C6: the standby hours are the sum of the table values of all assignments,
\* without a ceiling: whenever something is payable, or nothing was worked,
\* payable and worked hours together are that sum
C6_PlainSum ==
    Mounted /\ (calculation.paidStandbyHours > 0 \/ state.workLogs = <<>>) =>
        calculation.paidStandbyHours + calculation.totalWorkNormal
                + calculation.totalWorkHoliday
            = TableSum(state.selectedOnCallDates)

\* the longest list of assignments, each of 24 hours, all of them payable
C6_Witness ==
    /\ Mounted
    /\ Len(state.selectedOnCallDates) = MaxSavedShifts
    /\ state.workLogs = <<>>
    /\ calculation.paidStandbyHours = 24 * MaxSavedShifts

\* C7: the hours of an entry are in the holiday bucket iff its date is a public
\* holiday or its override is set, and in the normal bucket otherwise; an
\* override that is not set does not take a public holiday out of the bucket
C7_HolidayBucket ==
    Mounted =>
        /\ calculation.totalWorkHoliday = BucketSum(state.workLogs, TRUE)
        /\ calculation.totalWorkNormal = BucketSum(state.workLogs, FALSE)

\* an entry on Easter Monday 2024 with the override not set is in the holiday
\* bucket
C7_Witness ==
    /\ Mounted
    /\ Len(state.workLogs) = 1
    /\ CivilOfISO(state.workLogs[1].date) = [y |-> 2024, m |-> 4, d |-> 1]
    /\ ~state.workLogs[1].isHolidayOverride
    /\ calculation.totalWorkHoliday = 10
    /\ calculation.totalWorkNormal = 0

-----------------------------------------------------------------------------
(* Properties of the holiday resolver *)

\* the eleven fixed holidays as [m (1..12), d]
ElevenFixed ==
    {[m |-> 1, d |-> 1], [m |-> 5, d |-> 1], [m |-> 5, d |-> 8],
     [m |-> 7, d |-> 5], [m |-> 7, d |-> 6], [m |-> 9, d |-> 28],
     [m |-> 10, d |-> 28], [m |-> 11, d |-> 17], [m |-> 12, d |-> 24],
     [m |-> 12, d |-> 25], [m |-> 12, d |-> 26]}

MonthDay(date) ==
    [m |-> CivilFromDays(LocalDay(date)).m, d |-> CivilFromDays(LocalDay(date)).d]

\* the flagged dates of the year that are not fixed holidays
Movable == {date \in hDates : MonthDay(date) \notin ElevenFixed}

ThirteenHolidays ==
    /\ Cardinality(hDates) = 13
    /\ {MonthDay(date) : date \in hDates \ Movable} = ElevenFixed
    /\ Cardinality(hDates \ Movable) = 11
    /\ Cardinality(Movable) = 2

\* C8: in every calendar year exactly 13 dates are holidays: the 11 fixed
\* ones and two more, Good Friday and Easter Monday, that are not among them
C8_ThirteenHolidays == hDone => ThirteenHolidays

\* C8 outside the years 0 to 99: exactly 13 dates are holidays
C8_ThirteenFromYear100 == hDone /\ hYear \notin 0..99 => ThirteenHolidays

\* a year from 0 to 99 has been resolved: only the 11 fixed dates are flagged
C8_Witness ==
    /\ hDone
    /\ hYear \in 0..99
    /\ Cardinality(hDates) = 11
    /\ Movable = {}

\* C9: the two movable holidays the resolver compares a date with are the
\* days 2 before and 1 after the computed Easter Sunday, across the ends of
\* months too; no other day is flagged besides the fixed ones; in 2024 the two
\* are 29 March and 1 April and both are flagged
C9_MovableHolidays ==
    hDone =>
        LET easterSunday == getEasterSunday(hYear)
        IN  /\ LocalDay(goodFriday(easterSunday)) = LocalDay(easterSunday) - 2
            /\ LocalDay(easterMonday(easterSunday)) = LocalDay(easterSunday) + 1
            /\ {LocalDay(date) : date \in Movable}
                  \subseteq {LocalDay(easterSunday) - 2, LocalDay(easterSunday) + 1}
            /\ easterSunday \in DatesOfYear(hYear) =>
                  {LocalDay(date) : date \in Movable}
                      = {LocalDay(easterSunday) - 2, LocalDay(easterSunday) + 1}
            /\ hYear = 2024 =>
                  {CivilFromDays(LocalDay(date)) : date \in Movable}
                      = {[y |-> 2024, m |-> 3, d |-> 29],
                         [y |-> 2024, m |-> 4, d |-> 1]}

\* 2024 has been resolved: Easter Sunday is 31 March, and Easter Monday, in the
\* next month, is flagged together with Good Friday
C9_Witness ==
    /\ hDone
    /\ hYear = 2024
    /\ CivilFromDays(LocalDay(getEasterSunday(hYear))) = [y |-> 2024, m |-> 3, d |-> 31]
    /\ LocalMidnight(2024, 2, 29) \in hDates
    /\ LocalMidnight(2024, 3, 1) \in hDates

\* C10: the computed Easter Sunday itself is never a holiday; of the days
\* around Easter only a Friday and a Monday are flagged
C10_EasterSundayNotFlagged ==
    hDone =>
        /\ ~isCzechHoliday(getEasterSunday(hYear))
        /\ \A date \in hDates : LocalDay(date) # LocalDay(getEasterSunday(hYear))
        /\ \A date \in Movable : getDay(date) \in {1, 5}

\* a year has been resolved whose Easter Sunday lies between two flagged days
\* and is not flagged itself
C10_Witness ==
    /\ hDone
    /\ getEasterSunday(hYear) \in DatesOfYear(hYear)
    /\ getEasterSunday(hYear) \notin hDates
    /\ setDate(getEasterSunday(hYear), getDate(getEasterSunday(hYear)) - 2) \in hDates
    /\ setDate(getEasterSunday(hYear), getDate(getEasterSunday(hYear)) + 1) \in hDates

-----------------------------------------------------------------------------
(* Properties of the derived values of a render *)

\* the days from Monday to Friday of the months of 2024 offered by the month
\* input, as the wall calendar has them; Easter Monday in April, Labour Day and
\* Victory Day in May are among them
Weekdays2024 == [m \in {2, 4, 5} |-> CASE m = 2 -> 21 [] m = 4 -> 22 [] m = 5 -> 23]

\* p = n / d, for a fraction p of the model
IsQuotient(p, n, d) == p.n * d = n * p.d

\* C11: the standard monthly hours are 8 times the number of days from Monday
\* to Friday of the month shown, public holidays among them included; a month
\* of 22 such days gives 176; without override they divide the salary
C11_StandardHours ==
    Mounted =>
        LET weekdays == Weekdays2024[CivilOfISO(state.selectedDate).m]
        IN  /\ standardMonthlyHours(state) = 8 * weekdays
            /\ weekdays = 22 => standardMonthlyHours(state) = 176
            /\ state.monthlyHoursOverride = Null =>
                  IsQuotient(calculation.hourlyWage, state.monthlySalary, 8 * weekdays)

\* April 2024 chosen in the month input, 22 weekdays with Easter Monday among
\* them: 176 hours, and the
\* hourly wage of a salary of 80000 is 80000 / 176
C11_Witness ==
    /\ Mounted
    /\ state.selectedDate = toISOString(ParseMonthInput([Y |-> 2024, M |-> 4]))
    /\ standardMonthlyHours(state) = 176
    /\ state.monthlyHoursOverride = Null
    /\ state.monthlySalary = 80000
    /\ calculation.hourlyWage = [n |-> 5000, d |-> 11]

\* C12: the effective monthly hours are the override whenever it is not null,
\* 0 included, and the standard hours only when it is null
C12_OverrideUsed ==
    Mounted =>
        effectiveMonthlyHours(state)
            = (IF state.monthlyHoursOverride # Null
               THEN state.monthlyHoursOverride[1]
               ELSE standardMonthlyHours(state))

\* C12 with the override 0 set apart: the effective monthly hours are the
\* override when it is neither null nor 0, and the standard hours otherwise
C12_OverrideUsedUnlessZero ==
    Mounted =>
        effectiveMonthlyHours(state)
            = (IF state.monthlyHoursOverride # Null /\ state.monthlyHoursOverride[1] # 0
               THEN state.monthlyHoursOverride[1]
               ELSE standardMonthlyHours(state))

\* 0 has been typed into the monthly-hours input: the standard hours are in
\* effect and the hourly wage of a salary of 80000 is salary / standard hours
C12_Witness ==
    /\ Mounted
    /\ state.monthlyHoursOverride = <<0>>
    /\ effectiveMonthlyHours(state) = standardMonthlyHours(state)
    /\ state.monthlySalary = 80000
    /\ IsQuotient(calculation.hourlyWage, 80000, standardMonthlyHours(state))
    /\ calculation.hourlyWage.n > 0

Zero == [n |-> 0, d |-> 1]

\* C13: the hourly wage is salary / effective monthly hours when these are
\* positive and 0 when they are zero or negative; then a result is still
\* produced, with the standby fee, both overtime amounts and the total all 0
C13_GuardedWage ==
    Mounted =>
        LET hours == effectiveMonthlyHours(state)
        IN  /\ calculation # NotRendered
            /\ hours > 0 =>
                  IsQuotient(calculation.hourlyWage, state.monthlySalary, hours)
            /\ hours <= 0 =>
                  /\ calculation.hourlyWage = Zero
                  /\ calculation.onCallFee = Zero
                  /\ calculation.overtimeNormalPay = Zero
                  /\ calculation.overtimeHolidayPay = Zero
                  /\ calculation.totalExtra = Zero

\* negative monthly hours have been typed in, with a salary, payable standby
\* and worked hours of both buckets present: every amount is 0
C13_Witness ==
    /\ Mounted
    /\ effectiveMonthlyHours(state) < 0
    /\ state.monthlySalary = 80000
    /\ calculation.paidStandbyHours > 0
    /\ calculation.totalWorkNormal > 0
    /\ calculation.totalWorkHoliday > 0
    /\ calculation.hourlyWage = Zero
    /\ calculation.totalExtra = Zero

-----------------------------------------------------------------------------
(* Properties of the amounts *)

\* the numerator of the fraction p written over the denominator den
Over(p, den) == p.n * (den \div p.d)

\* p is the sum of the fractions a, b and c, all of which can be written over
\* the denominator den
IsSum(p, a, b, c, den) ==
    /\ \A x \in {p, a, b, c} : den % x.d = 0
    /\ Over(p, den) = Over(a, den) + Over(b, den) + Over(c, den)

\* C14: the standby fee is payable standby * hourly wage * standby rate, the
\* overtime amounts are worked hours * hourly wage * (1 + overtime rate), and
\* the total is the sum of the three; nothing is rounded
C14_Amounts ==
    Mounted =>
        LET wage == calculation.hourlyWage
            r == rates(state)
        IN  /\ IsQuotient(calculation.onCallFee,
                          calculation.paidStandbyHours * wage.n * r.onCall,
                          wage.d * 10)
            /\ IsQuotient(calculation.overtimeNormalPay,
                          calculation.totalWorkNormal * wage.n * (10 + r.otNormal),
                          wage.d * 10)
            /\ IsQuotient(calculation.overtimeHolidayPay,
                          calculation.totalWorkHoliday * wage.n * (10 + r.otHoliday),
                          wage.d * 10)
            /\ IsSum(calculation.totalExtra, calculation.onCallFee,
                     calculation.overtimeNormalPay, calculation.overtimeHolidayPay,
                     wage.d * 10)

\* three amounts that are not whole numbers, and their sum
C14_Witness ==
    /\ Mounted
    /\ calculation.paidStandbyHours > 0
    /\ calculation.onCallFee.d > 1
    /\ calculation.overtimeNormalPay.d > 1
    /\ calculation.overtimeHolidayPay.d > 1
    /\ calculation.totalExtra.n
          > calculation.totalExtra.d * (calculation.onCallFee.n \div calculation.onCallFee.d)

\* the rate triples the three custom-rate inputs can produce
CustomRateTriples ==
    [onCall : {2} \cup RateInputs, otNormal : {5} \cup RateInputs,
     otHoliday : {15} \cup RateInputs]

\* the standby fee is payable standby * hourly wage * rate / 10
FeeAtRate(rate) ==
    IsQuotient(calculation.onCallFee,
               calculation.paidStandbyHours * calculation.hourlyWage.n * rate,
               calculation.hourlyWage.d * 10)

\* C15: the custom rates are used only with the Custom profile; DevOpsInfra
\* uses (0.2, 0.5, 1.5) and OtherEmployee (0.1, 0.5, 1.5), and with these two
\* profiles no change of the custom rates changes any field of the result
C15_FixedProfiles ==
    Mounted =>
        /\ state.profile = "custom" => FeeAtRate(state.customRates.onCall)
        /\ state.profile = "devops" => FeeAtRate(2)
        /\ state.profile = "other" => FeeAtRate(1)
        /\ state.profile # "custom" =>
              \A triple \in CustomRateTriples :
                  Calculate([state EXCEPT !.customRates = triple]) = calculation

\* DevOpsInfra chosen again after the custom standby rate was set to 0.3: the
\* fee is taken at 0.2
C15_Witness ==
    /\ Mounted
    /\ state.profile = "devops"
    /\ state.customRates.onCall = 3
    /\ calculation.paidStandbyHours > 0
    /\ calculation.onCallFee.n > 0
    /\ FeeAtRate(2)

-----------------------------------------------------------------------------
(* Properties of the calculation on stored assignments *)

UnknownTag(st) ==
    \E i \in 1..Len(st.selectedOnCallDates) :
        st.selectedOnCallDates[i].type \notin ShiftTypes

\* an assignment with every tag that is not Start, End or Split read as Full
AsFull(item) ==
    IF item.type \in ShiftTypes THEN item ELSE [item EXCEPT !.type = "full"]

\* C16: for an assignment whose tag is none of Full, Start, End, Split the
\* calculation signals MalformedInput and constructs no result
C16_MalformedInputSignalled ==
    Mounted /\ UnknownTag(state) => calculation = NotRendered

\* C16 as the calculation behaves: a result is always constructed, and an
\* assignment with an unknown tag is counted in it as a Full assignment
C16_UnknownCountedAsFull ==
    Mounted =>
        /\ calculation # NotRendered
        /\ calculation.paidStandbyHours
              = TableSum([i \in 1..Len(state.selectedOnCallDates) |->
                            AsFull(state.selectedOnCallDates[i])])

\* a stored 'handoff' assignment on Tuesday 2 April 2024 has been loaded: the
\* result shows the 16 standby hours of a Full assignment
C16_Witness ==
    /\ Mounted
    /\ Len(state.selectedOnCallDates) = 1
    /\ state.selectedOnCallDates[1].type = "handoff"
    /\ CivilOfISO(state.selectedOnCallDates[1].date) = [y |-> 2024, m |-> 4, d |-> 2]
    /\ calculation # NotRendered
    /\ calculation.paidStandbyHours = 16

-----------------------------------------------------------------------------
(* Properties of the recomputation *)

-----------------------------------------------------------------------------
(* Properties of the work-log handlers *)

LogFields == {"id", "date", "hours", "isHolidayOverride"}

\* the values a field of a work-log row can be given
LogValues(field) ==
    CASE field = "date" -> {toISOString(ParseDateInput(v)) : v \in LogDateInputs}
      [] field = "hours" -> LogHoursInputs
      [] field = "isHolidayOverride" -> BOOLEAN

\* everything of the state but the work log is as before
RestUnchanged ==
    \A f \in DOMAIN state \ {"workLogs"} : state'[f] = state[f]

\* the entries with the id have the field set and nothing else changed, every
\* other entry is as before
OnlyFieldSet(id, field, value) ==
    /\ Len(state'.workLogs) = Len(state.workLogs)
    /\ \A i \in 1..Len(state.workLogs) :
          IF state.workLogs[i].id = id
          THEN \A g \in LogFields :
                  state'.workLogs[i][g]
                      = (IF g = field THEN value ELSE state.workLogs[i][g])
          ELSE state'.workLogs[i] = state.workLogs[i]
    /\ RestUnchanged

\* the entries with another id are all left, in their order, and no other
OnlyRemoved(id) ==
    LET kept == {i \in 1..Len(state.workLogs) : state.workLogs[i].id # id}
    IN  /\ Len(state'.workLogs) = Cardinality(kept)
        /\ \A i \in kept :
              state'.workLogs[Cardinality({j \in kept : j <= i})] = state.workLogs[i]
        /\ RestUnchanged

\* C19: updateWorkLog(id, field, value) sets that field of the entry with that
\* id and removeWorkLog(id) deletes the entry with that id; every other entry,
\* also one of the same date, and all assignments are left as they are
C19_LogsIndependent ==
    [][\A id \in LogIds :
          /\ \A field \in LogFields \ {"id"} : \A value \in LogValues(field) :
                updateWorkLog(id, field, value) => OnlyFieldSet(id, field, value)
          /\ removeWorkLog(id) => OnlyRemoved(id)]_vars

\* two entries of the same date with 10 hours each, both counted, after a
\* third has been removed or never was: the assignments are those stored
C19_Witness ==
    /\ Mounted
    /\ Len(state.workLogs) = 2
    /\ state.workLogs[1].id # state.workLogs[2].id
    /\ state.workLogs[1].date = state.workLogs[2].date
    /\ state.workLogs[1].hours = 10
    /\ state.workLogs[2].hours = 10
    /\ calculation.totalWorkNormal + calculation.totalWorkHoliday = 20
    /\ state.selectedOnCallDates = LogsShiftList

\* C18: after every sequence of toggleDate, addWorkLog, updateWorkLog,
\* removeWorkLog and changes of salary, month, hours override, profile and
\* custom rates, the result in effect is the calculation of the current state
C18_ResultCurrent ==
    Mounted => calculation = Calculate(state)

\* the salary, the month, the hours override, the profile and a custom rate
\* have been changed, an assignment toggled and a work-log row edited
C18_Witness ==
    /\ Mounted
    /\ state.monthlySalary = 0
    /\ state.selectedDate = toISOString(ParseMonthInput([Y |-> 2024, M |-> 5]))
    /\ state.monthlyHoursOverride = <<160>>
    /\ state.profile = "custom"
    /\ state.customRates.onCall = 3
    /\ Len(state.selectedOnCallDates) = 1
    /\ state.selectedOnCallDates[1].type = "start"
    /\ Len(state.workLogs) = 1
    /\ state.workLogs[1].hours = 10
    /\ calculation = Calculate(state)

\* the scenario of the worked example: salary 80000, 176 effective monthly
\* hours, the DevOps profile, one Full assignment on a working day from Monday
\* to Friday that is no public holiday, and no work log
PlainWeekdayScenario ==
    /\ Mounted
    /\ state.monthlySalary = 80000
    /\ effectiveMonthlyHours(state) = 176
    /\ state.profile = "devops"
    /\ Len(state.selectedOnCallDates) = 1
    /\ state.selectedOnCallDates[1].type = "full"
    /\ getDay(ParseISO(state.selectedOnCallDates[1].date)) \in 1..5
    /\ CivilOfISO(state.selectedOnCallDates[1].date) \notin PublicHolidays2024
    /\ state.workLogs = <<>>

\* C20: in that scenario 16 standby hours are paid, no worked hours are
\* counted, the hourly wage is 80000/176 (454.54 to 454.55), the standby fee is
\* 16 * (80000/176) * 0.2 = 16000/11 (1454.5 to 1454.6), both overtime amounts
\* are 0 and the total equals the standby fee
C20_WorkedExample ==
    PlainWeekdayScenario =>
        /\ calculation.paidStandbyHours = 16
        /\ calculation.totalWorkNormal = 0
        /\ calculation.totalWorkHoliday = 0
        /\ IsQuotient(calculation.hourlyWage, 80000, 176)
        /\ 45454 * calculation.hourlyWage.d < 100 * calculation.hourlyWage.n
        /\ 100 * calculation.hourlyWage.n < 45455 * calculation.hourlyWage.d
        /\ IsQuotient(calculation.onCallFee, 16 * 80000 * 2, 176 * 10)
        /\ 14545 * calculation.onCallFee.d < 10 * calculation.onCallFee.n
        /\ 10 * calculation.onCallFee.n < 14546 * calculation.onCallFee.d
        /\ calculation.overtimeNormalPay = Zero
        /\ calculation.overtimeHolidayPay = Zero
        /\ calculation.totalExtra = calculation.onCallFee

\* the scenario is on screen: Tuesday 2 April 2024 in a month of 176 standard
\* hours without override
C20_Witness ==
    /\ PlainWeekdayScenario
    /\ state.monthlyHoursOverride = Null
    /\ CivilOfISO(state.selectedOnCallDates[1].date) = [y |-> 2024, m |-> 4, d |-> 2]
    /\ calculation.paidStandbyHours = 16

-----------------------------------------------------------------------------
(* Properties of the kinds of day *)

\* the assignment lies on a day from Monday to Friday that is a public holiday
OnWeekdayHoliday(item) ==
    /\ getDay(ParseISO(item.date)) \in 1..5
    /\ CivilOfISO(item.date) \in PublicHolidays2024

\* C21: a Full assignment on a public holiday from Monday to Friday adds 24
\* standby hours and a Start assignment 15, as on a weekend, while the same day
\* is one of the working days of 8 hours in the standard monthly hours of its
\* month
C21_HolidayAsymmetry ==
    Mounted =>
        \A i \in 1..Len(state.selectedOnCallDates) :
            OnWeekdayHoliday(state.selectedOnCallDates[i]) =>
                /\ state.selectedOnCallDates[i].type = "full" =>
                      ShiftHours(state.selectedOnCallDates[i]) = 24
                /\ state.selectedOnCallDates[i].type = "start" =>
                      ShiftHours(state.selectedOnCallDates[i]) = 15
                /\ Len(state.selectedOnCallDates) = 1 /\ state.workLogs = <<>> =>
                      calculation.paidStandbyHours
                          = StandbyTable(state.selectedOnCallDates[i].type, TRUE)
                /\ CivilOfISO(state.selectedOnCallDates[i].date).m
                        = CivilOfISO(state.selectedDate).m =>
                      /\ ~isWeekend(ParseISO(state.selectedOnCallDates[i].date))
                      /\ standardMonthlyHours(state)
                            = 8 * Weekdays2024[CivilOfISO(state.selectedDate).m]

\* a single Full assignment on Easter Monday 2024 gives 24 hours while April
\* 2024 keeps its 22 working days, Easter Monday among them
C21_Witness ==
    /\ Mounted
    /\ Len(state.selectedOnCallDates) = 1
    /\ state.selectedOnCallDates[1].type = "full"
    /\ CivilOfISO(state.selectedOnCallDates[1].date) = [y |-> 2024, m |-> 4, d |-> 1]
    /\ CivilOfISO(state.selectedDate).m = 4
    /\ state.workLogs = <<>>
    /\ calculation.paidStandbyHours = 24
    /\ standardMonthlyHours(state) = 176
    /\ calculation.hourlyWage = [n |-> 5000, d |-> 11]

\* the work-log entry is dated on a Saturday or Sunday that is no public
\* holiday, and its override is not set
OnPlainWeekend(log) ==
    /\ getDay(ParseISO(log.date)) \in {0, 6}
    /\ CivilOfISO(log.date) \notin PublicHolidays2024
    /\ ~log.isHolidayOverride

\* C22: the hours of a work-log entry dated on a Saturday or Sunday that is no
\* public holiday, with the override not set, go to the normal bucket and not
\* to the holiday bucket, while an assignment on the same day is counted with
\* the weekend hours
C22_WeekendLogIsNormal ==
    Mounted =>
        \A i \in 1..Len(state.workLogs) :
            OnPlainWeekend(state.workLogs[i]) =>
                /\ LogNormalHours(state.workLogs[i]) = state.workLogs[i].hours
                /\ LogHolidayHours(state.workLogs[i]) = 0
                /\ Len(state.workLogs) = 1 =>
                      /\ calculation.totalWorkNormal = state.workLogs[i].hours
                      /\ calculation.totalWorkHoliday = 0
                /\ \A j \in 1..Len(state.selectedOnCallDates) :
                      /\ LocalDay(ParseISO(state.selectedOnCallDates[j].date))
                            = LocalDay(ParseISO(state.workLogs[i].date))
                      /\ state.selectedOnCallDates[j].type \in {"full", "start"}
                      => ShiftHours(state.selectedOnCallDates[j])
                            = StandbyTable(state.selectedOnCallDates[j].type, TRUE)

\* 10 hours logged on Saturday 6 April 2024 are normal overtime while the Full
\* assignment of that day has 24 standby hours, of which 14 stay payable
C22_Witness ==
    /\ Mounted
    /\ Len(state.workLogs) = 1
    /\ OnPlainWeekend(state.workLogs[1])
    /\ CivilOfISO(state.workLogs[1].date) = [y |-> 2024, m |-> 4, d |-> 6]
    /\ state.workLogs[1].hours = 10
    /\ Len(state.selectedOnCallDates) = 1
    /\ state.selectedOnCallDates[1].type = "full"
    /\ CivilOfISO(state.selectedOnCallDates[1].date) = [y |-> 2024, m |-> 4, d |-> 6]
    /\ calculation.totalWorkNormal = 10
    /\ calculation.totalWorkHoliday = 0
    /\ calculation.paidStandbyHours = 14

-----------------------------------------------------------------------------
(* Properties of the state load *)

\* a stored list of bare date strings, as the oldest version wrote it
LegacyList(list) == \A i \in 1..Len(list) : IsString(list[i])

\* every element of the list is a {date, type} record
TypedList(list) == \A i \in 1..Len(list) : DOMAIN list[i] = {"date", "type"}

\* C23: the load of a stored state whose selectedOnCallDates is a list of bare
\* date strings gives a list of assignments of the same length and order, each
\* with the original date and the variant Full; the calculation of the first
\* render is made on that list, and after the load every element is a
\* {date, type} record
C23_LegacyMigration ==
    [][/\ state = NotMounted
       /\ storage # Null
       /\ LegacyList(storage[1].selectedOnCallDates)
       => /\ Len(state'.selectedOnCallDates) = Len(storage[1].selectedOnCallDates)
          /\ \A i \in 1..Len(storage[1].selectedOnCallDates) :
                state'.selectedOnCallDates[i]
                    = [date |-> storage[1].selectedOnCallDates[i], type |-> "full"]
          /\ TypedList(state'.selectedOnCallDates)
          /\ calculation'.paidStandbyHours = TableSum(state'.selectedOnCallDates)
          /\ storage' = <<state'>>]_vars

\* the state after the load of the stored strings of Tuesday 2 April and
\* Saturday 6 April 2024: two Full assignments in that order, 16 + 24 standby
\* hours, and the typed list written back to localStorage
C23_Witness ==
    /\ Mounted
    /\ Len(state.selectedOnCallDates) = 2
    /\ TypedList(state.selectedOnCallDates)
    /\ state.selectedOnCallDates[1]
          = [date |-> toISOString(LocalMidnight(2024, 3, 2)), type |-> "full"]
    /\ state.selectedOnCallDates[2]
          = [date |-> toISOString(LocalMidnight(2024, 3, 6)), type |-> "full"]
    /\ calculation.paidStandbyHours = 40
    /\ storage = <<state>>

-----------------------------------------------------------------------------
(* Properties of the two overtime buckets *)

\* the hours of all entries of a work log
RECURSIVE HoursSum(_)
HoursSum(logs) ==
    IF logs = <<>> THEN 0 ELSE Head(logs).hours + HoursSum(Tail(logs))

\* C24: the hours in the normal bucket and in the holiday bucket together are
\* the hours of all work-log entries; the hours of every entry are counted in
\* exactly one of the two buckets
C24_BucketsPartition ==
    Mounted =>
        /\ calculation.totalWorkNormal + calculation.totalWorkHoliday
              = HoursSum(state.workLogs)
        /\ calculation.totalWorkNormal
              = BucketSum(state.workLogs, FALSE)
        /\ calculation.totalWorkHoliday
              = HoursSum(state.workLogs) - BucketSum(state.workLogs, FALSE)
        /\ \A i \in 1..Len(state.workLogs) :
              \/ /\ LogNormalHours(state.workLogs[i]) = state.workLogs[i].hours
                 /\ LogHolidayHours(state.workLogs[i]) = 0
              \/ /\ LogNormalHours(state.workLogs[i]) = 0
                 /\ LogHolidayHours(state.workLogs[i]) = state.workLogs[i].hours

\* two entries of 10 hours, one in each bucket
C24_Witness ==
    /\ Mounted
    /\ Len(state.workLogs) = 2
    /\ state.workLogs[1].hours = 10
    /\ state.workLogs[2].hours = 10
    /\ calculation.totalWorkNormal = 10
    /\ calculation.totalWorkHoliday = 10

-----------------------------------------------------------------------------
(* Frame and interleaving of toggleDate *)

\* the assignments of a list that do not lie on the local day of day, in the
\* order of the list
OnOtherDays(list, day) ==
    SelectSeq(list, LAMBDA item : LocalDay(ParseISO(item.date)) # LocalDay(day))

\* C25: toggleDate(day) changes only the assignment of that calendar day: the
\* assignments of all other days keep their dates, variants and order, and the
\* work log, salary, month, hours override, profile and custom rates stay as
\* they are
C25_ToggleFrame ==
    [][\A day \in (IF Mounted THEN CalendarDays(state) ELSE {}) :
          toggleDate(day) =>
              /\ OnOtherDays(state'.selectedOnCallDates, day)
                    = OnOtherDays(state.selectedOnCallDates, day)
              /\ state'.workLogs = state.workLogs
              /\ state'.monthlySalary = state.monthlySalary
              /\ state'.selectedDate = state.selectedDate
              /\ state'.monthlyHoursOverride = state.monthlyHoursOverride
              /\ state'.profile = state.profile
              /\ state'.customRates = state.customRates]_vars

\* beside changed settings and a work log of two entries, Tuesday 2 April 2024
\* has been toggled to Split while Saturday 6 April keeps its Full assignment
\* and Labour Day its Start assignment
C25_Witness ==
    /\ Mounted
    /\ state.profile = "custom"
    /\ state.monthlyHoursOverride = <<160>>
    /\ Len(state.workLogs) = 2
    /\ Len(state.selectedOnCallDates) = 3
    /\ state.selectedOnCallDates[1]
          = [date |-> toISOString(LocalMidnight(2024, 3, 6)), type |-> "full"]
    /\ state.selectedOnCallDates[2]
          = [date |-> toISOString(LocalMidnight(2024, 4, 1)), type |-> "start"]
    /\ state.selectedOnCallDates[3]
          = [date |-> toISOString(LocalMidnight(2024, 3, 2)), type |-> "split"]

\* the days of the calendar shown whose buttons are clicked
ClickedDays ==
    IF Mounted THEN {day \in CalendarDays(state) : getDate(day) \in ClickDays} ELSE {}

\* C26: two toggleDate calls on two different days issued from the same
\* rendered state both take effect: each of the two days moves one step along
\* the cycle
C26_BothTogglesApplied ==
    [][\A first, second \in ClickedDays :
          LocalDay(first) # LocalDay(second) /\ toggleDateBatch(first, second) =>
              /\ TypesOn(state', first) = CycleAfter(TypesOn(state, first))
              /\ TypesOn(state', second) = CycleAfter(TypesOn(state, second))]_vars

\* C26 as toggleDate behaves: of two calls issued from the same rendered state
\* the second takes effect and the first is lost
C26_LastToggleWins ==
    [][\A first, second \in ClickedDays :
          LocalDay(first) # LocalDay(second) /\ toggleDateBatch(first, second) =>
              /\ TypesOn(state', first) = TypesOn(state, first)
              /\ TypesOn(state', second) = CycleAfter(TypesOn(state, second))]_vars

\* the state after Tuesday 2 April and Saturday 6 April 2024 were toggled from
\* the render of the empty list: only the Saturday has an assignment, in the
\* state and in localStorage
C26_Witness ==
    /\ Mounted
    /\ Len(state.selectedOnCallDates) = 1
    /\ CivilOfISO(state.selectedOnCallDates[1].date) = [y |-> 2024, m |-> 4, d |-> 6]
    /\ state.selectedOnCallDates[1].type = "full"
    /\ TypesOn(state, LocalMidnight(2024, 3, 2)) = {}
    /\ storage = <<state>>

-----------------------------------------------------------------------------
(* Properties of the Easter computation *)

\* the local day of date is one of the days from month m1 / day d1 to month
\* m2 / day d2 of year y (months 1..12)
Between(date, y, m1, d1, m2, d2) ==
    LocalDay(date) \in DaysFromCivil(y, m1, d1)..DaysFromCivil(y, m2, d2)

\* C27: for every year of the model that lies in the Gregorian calendar
\* (FirstYear to LastYear) getEasterSunday gives a Sunday from 22 March to
\* 25 April of that year; Good Friday is a Friday and
\* Easter Monday a Monday from 20 March to 26 April, and so are the two movable
\* days the resolver flags
C27_EasterRange ==
    hDone /\ hYear \in FirstYear..LastYear =>
        /\ getDay(getEasterSunday(hYear)) = 0
        /\ Between(getEasterSunday(hYear), hYear, 3, 22, 4, 25)
        /\ getDay(goodFriday(getEasterSunday(hYear))) = 5
        /\ Between(goodFriday(getEasterSunday(hYear)), hYear, 3, 20, 4, 23)
        /\ getDay(easterMonday(getEasterSunday(hYear))) = 1
        /\ Between(easterMonday(getEasterSunday(hYear)), hYear, 3, 23, 4, 26)
        /\ Cardinality(Movable) = 2
        /\ \A date \in Movable :
              /\ getDay(date) \in {1, 5}
              /\ Between(date, hYear, 3, 20, 4, 26)

\* 2038 has been resolved: Easter Sunday on 25 April, the latest day there is,
\* and Easter Monday on 26 April is flagged
C27_Witness ==
    /\ hDone
    /\ hYear = 2038
    /\ CivilFromDays(LocalDay(getEasterSunday(hYear))) = [y |-> 2038, m |-> 4, d |-> 25]
    /\ getDay(getEasterSunday(hYear)) = 0
    /\ LocalMidnight(2038, 3, 26) \in hDates

-----------------------------------------------------------------------------
(* Bounds and monotonicity of the payable standby hours *)

\* no entry of the work log has negative hours
NonNegativeHours(st) == \A i \in 1..Len(st.workLogs) : st.workLogs[i].hours >= 0

\* the step only raises hours of work-log entries
HoursAdded ==
    /\ state'.selectedOnCallDates = state.selectedOnCallDates
    /\ Len(state'.workLogs) = Len(state.workLogs)
    /\ \A i \in 1..Len(state.workLogs) :
          /\ state'.workLogs[i].hours >= state.workLogs[i].hours
          /\ state'.workLogs[i]
                = [state.workLogs[i] EXCEPT !.hours = state'.workLogs[i].hours]

\* the step only appends one assignment
ShiftAdded ==
    /\ state'.workLogs = state.workLogs
    /\ Len(state'.selectedOnCallDates) = Len(state.selectedOnCallDates) + 1
    /\ SubSeq(state'.selectedOnCallDates, 1, Len(state.selectedOnCallDates))
          = state.selectedOnCallDates

\* C28: with no negative hours in the work log the payable standby hours are
\* at most the standby hours of the assignments, and equal to them when no
\* hours are logged; a step that adds hours to work-log entries does not raise
\* them, and a step that adds an assignment does not lower them
C28_PayableBounded ==
    [][state' # NotMounted /\ NonNegativeHours(state') =>
          /\ calculation'.paidStandbyHours <= TableSum(state'.selectedOnCallDates)
          /\ HoursSum(state'.workLogs) = 0 =>
                calculation'.paidStandbyHours = TableSum(state'.selectedOnCallDates)
          /\ Mounted /\ NonNegativeHours(state) /\ HoursAdded =>
                calculation'.paidStandbyHours <= calculation.paidStandbyHours
          /\ Mounted /\ NonNegativeHours(state) /\ ShiftAdded =>
                calculation'.paidStandbyHours >= calculation.paidStandbyHours]_vars

\* Tuesday 2 April 2024 has been added to the Saturday and Labour Day: 55
\* standby hours, of which the 10 and 50 hours logged leave nothing payable
C28_Witness ==
    /\ Mounted
    /\ Len(state.selectedOnCallDates) = 3
    /\ TableSum(state.selectedOnCallDates) = 55
    /\ Len(state.workLogs) = 2
    /\ state.workLogs[1].hours = 10
    /\ state.workLogs[2].hours = 50
    /\ calculation.paidStandbyHours = 0

-----------------------------------------------------------------------------
(* Frame of addWorkLog *)

\* C29: addWorkLog appends exactly one entry, with hours 0 and the override
\* not set, and leaves the entries before it, the assignments and the rest of
\* the state as they are; every field of the result is the same before and
\* after
C29_AddWorkLogNeutral ==
    [][\A id \in Ids :
          addWorkLog(id) =>
              /\ Len(state'.workLogs) = Len(state.workLogs) + 1
              /\ SubSeq(state'.workLogs, 1, Len(state.workLogs)) = state.workLogs
              /\ state'.workLogs[Len(state'.workLogs)].hours = 0
              /\ state'.workLogs[Len(state'.workLogs)].isHolidayOverride = FALSE
              /\ state'.selectedOnCallDates = state.selectedOnCallDates
              /\ [state' EXCEPT !.workLogs = state.workLogs] = state
              /\ calculation' = calculation]_vars

\* a row has been added below an entry of 10 hours: the result still shows
\* these 10 hours and the standby hours less 10
C29_Witness ==
    /\ Mounted
    /\ Len(state.workLogs) = 2
    /\ state.workLogs[1].hours = 10
    /\ state.workLogs[2]
          = [id |-> state.workLogs[2].id, date |-> toISOString(Now), hours |-> 0,
             isHolidayOverride |-> FALSE]
    /\ calculation.totalWorkNormal + calculation.totalWorkHoliday = 10
    /\ calculation.paidStandbyHours = TableSum(state.selectedOnCallDates) - 10

-----------------------------------------------------------------------------
(* The two versions of the page compared *)

\* a state of the older page as the newer page has it: Handoff is End
AsEnd(st) ==
    [st EXCEPT !.selectedOnCallDates =
        [i \in 1..Len(@) |->
            IF @[i].type = "handoff" THEN [@[i] EXCEPT !.type = "end"] ELSE @[i]]]

\* C30: for every assignment list of Full and morning-handoff assignments
\* (Handoff in the older page, End in the newer one) and the same work log,
\* salary, month, override and rates, the results of the two pages are equal in
\* every field
C30_VariantsAgree ==
    Mounted =>
        /\ \A i \in 1..Len(state.selectedOnCallDates) :
              state.selectedOnCallDates[i].type \in VariantTypes
        /\ calculation = Calculate(AsEnd(state))

\* the older page has calculated a Full assignment on Easter Monday 2024 and a
\* Handoff on the Tuesday after it, with 10 hours logged: 24 + 9 - 10 hours are
\* payable
C30_Witness ==
    /\ Mounted
    /\ Len(state.selectedOnCallDates) = 2
    /\ state.selectedOnCallDates[1].type = "full"
    /\ CivilOfISO(state.selectedOnCallDates[1].date) = [y |-> 2024, m |-> 4, d |-> 1]
    /\ state.selectedOnCallDates[2].type = "handoff"
    /\ CivilOfISO(state.selectedOnCallDates[2].date) = [y |-> 2024, m |-> 4, d |-> 2]
    /\ Len(state.workLogs) = 1
    /\ state.workLogs[1].hours = 10
    /\ calculation.paidStandbyHours = 23
    /\ calculation = Calculate(AsEnd(state))

=============================================================================
